---- MODULE Spec2Model ----
(***************************************************************************)
(* A model of the terminal markdown editor (src/src/editor.ts): the line   *)
(* buffer, the cursor, the dirty flag, the command palette and the         *)
(* asynchronous command execution.                                         *)
(*                                                                         *)
(* A JavaScript string is a sequence of one-character strings; line and    *)
(* column indices are 0-based as in the source, sequences are 1-based.     *)
(***************************************************************************)
EXTENDS Integers, Sequences, FiniteSets, TLC

VARIABLES
    lines,                 \* state.lines
    cursorLine,            \* state.cursorLine
    cursorColumn,          \* state.cursorColumn
    isDirty,               \* state.isDirty
    filePath,              \* state.filePath (NoPath when undefined)
    isCommandPaletteOpen,  \* state.isCommandPaletteOpen
    commandInput,          \* state.commandInput
    filteredCommands,      \* state.filteredCommands
    selectedCommandIndex,  \* state.selectedCommandIndex
    pending,               \* calls of the external executor whose promise has not settled
    sigintArmed,           \* the SIGINT handlers registered by process.once and not yet run
    exited,                \* process.exit has been called
    last                   \* the operation that completed last: its name, argument and outcome

vars == <<lines, cursorLine, cursorColumn, isDirty, filePath,
          isCommandPaletteOpen, commandInput, filteredCommands,
          selectedCommandIndex, pending, sigintArmed, exited, last>>

document == <<lines, cursorLine, cursorColumn, isDirty>>
palette  == <<isCommandPaletteOpen, commandInput, filteredCommands, selectedCommandIndex>>
process  == <<sigintArmed, exited>>

----------------------------------------------------------------------------
(* Bounds of the model *)

MaxContentLen == 2   \* longest document content (characters, newlines included) under Spec
MaxLines      == 3   \* most lines of the document under Spec
MaxPending    == 2   \* most executor calls in flight
MaxTextLen    == 2   \* longest text over TextChars under SpecBuffer
MaxBufferLen  == 6   \* longest document content under SpecBuffer
MaxBufferLines == 4  \* most lines of the document under SpecBuffer

----------------------------------------------------------------------------
(* Strings *)

NL == "\n"

\* what reading a missing array element yields
Undefined == <<"undefined">>

Min(a, b) == IF a < b THEN a ELSE b

StringsUpTo(cs, n) == UNION {[1..k -> cs] : k \in 0..n}

TextChars == {"a", NL}

\* the texts of the insertion scenario of the specification: "a\nb" and "X\nY"
ScenarioTexts == { <<"a", NL, "b">>, <<"X", NL, "Y">> }

\* a text with two different middle segments: "\na\n\n"
MiddleTexts == { <<NL, "a", NL, NL>> }

\* the strings callers and the executor hand to the editor under Spec: "", "a", "\n"
Texts == { <<>>, <<"a">>, <<NL>> }

\* the strings callers hand to the line buffer under SpecBuffer
BufferTexts == StringsUpTo(TextChars, MaxTextLen) \cup ScenarioTexts \cup MiddleTexts

\* String.prototype.slice(from) and slice(from, to) for non-negative arguments
SliceFrom(s, from) == SubSeq(s, Min(from, Len(s)) + 1, Len(s))
SliceTo(s, to) == SubSeq(s, 1, Min(to, Len(s)))

\* index of the first newline of s, 0 when there is none
RECURSIVE IndexOfNL(_, _)
IndexOfNL(s, i) ==
    IF i > Len(s) THEN 0
    ELSE IF s[i] = NL THEN i
    ELSE IndexOfNL(s, i + 1)

\* a slip: a trailing empty segment is dropped, as split does in other languages
RECURSIVE SplitDropTrailing(_)
SplitDropTrailing(s) ==
    LET i == IndexOfNL(s, 1) IN
    IF i = 0 THEN <<s>>
    ELSE IF i = Len(s) THEN <<SubSeq(s, 1, i - 1)>>
    ELSE <<SubSeq(s, 1, i - 1)>> \o SplitDropTrailing(SubSeq(s, i + 1, Len(s)))

\* a slip: the empty string splits into no segment at all
RECURSIVE SplitEmptyToNone(_)
SplitEmptyToNone(s) ==
    LET i == IndexOfNL(s, 1) IN
    IF s = <<>> THEN <<>>
    ELSE IF i = 0 THEN <<s>>
    ELSE <<SubSeq(s, 1, i - 1)>> \o SplitEmptyToNone(SubSeq(s, i + 1, Len(s)))

\* String.prototype.split('\n')
RECURSIVE Split(_)
Split(s) ==
    LET i == IndexOfNL(s, 1) IN
    IF i = 0 THEN <<s>>
    ELSE <<SubSeq(s, 1, i - 1)>> \o Split(SubSeq(s, i + 1, Len(s)))

\* x || ''
OrEmpty(x) == IF x = Undefined THEN <<>> ELSE x

\* Array.prototype.join('\n'): a missing element joins as the empty string
RECURSIVE Join(_)
Join(arr) ==
    IF arr = <<>> THEN <<>>
    ELSE IF Len(arr) = 1 THEN OrEmpty(arr[1])
    ELSE OrEmpty(arr[1]) \o <<NL>> \o Join(Tail(arr))

\* arr[i] (0-based): undefined beyond the end of the array
At(arr, i) == IF i < Len(arr) THEN arr[i + 1] ELSE Undefined

\* arr[i] = v (0-based): beyond the end the array grows, the gap holding no elements
SetAt(arr, i, v) ==
    IF i < Len(arr) THEN [arr EXCEPT ![i + 1] = v]
    ELSE arr \o [j \in 1..(i - Len(arr)) |-> Undefined] \o <<v>>

\* arr.splice(i, 0, v) (0-based): the start index is clamped to the length
Splice(arr, i, v) ==
    LET p == Min(i, Len(arr)) IN
    SubSeq(arr, 1, p) \o <<v>> \o SubSeq(arr, p + 1, Len(arr))

----------------------------------------------------------------------------
(* The external command collaborator (@compilr-dev/editor-core) and the file *)

NoPath == "undefined"
ThePath == "doc.md"

\* getAllCommands(): the registered commands, each stood for by its name
AllCommands == << <<"h", "1">>, <<"h", "2">> >>

\* the inputs typed into the palette: "", "2" (matches one command), "z" (matches none)
Queries == { <<>>, <<"2">>, <<"z">> }

\* the inputs handed to executeCommand(input): "/h1" and the malformed "h1"
CommandInputs == { <<"/", "h", "1">>, <<"h", "1">> }

\* index (1-based) of the first occurrence of pat in s, 0 when there is none
IndexOf(s, pat) ==
    LET hits == {i \in 1..(Len(s) - Len(pat) + 1) : SubSeq(s, i, i + Len(pat) - 1) = pat} IN
    IF hits = {} THEN 0 ELSE CHOOSE i \in hits : \A j \in hits : i <= j

\* searchCommands(query): the commands whose name contains the query
SearchCommands(query) == SelectSeq(AllCommands, LAMBDA c : IndexOf(c, query) # 0)

\* s.replace(pat, ''): the first occurrence of pat is removed
ReplaceFirst(s, pat) ==
    LET i == IndexOf(s, pat) IN
    IF i = 0 THEN s ELSE SubSeq(s, 1, i - 1) \o SubSeq(s, i + Len(pat), Len(s))

WhiteSpace == {" ", NL, "\t"}

\* String.prototype.trim()
RECURSIVE Trim(_)
Trim(s) ==
    IF s = <<>> THEN s
    ELSE IF s[1] \in WhiteSpace THEN Trim(Tail(s))
    ELSE IF s[Len(s)] \in WhiteSpace THEN Trim(SubSeq(s, 1, Len(s) - 1))
    ELSE s

\* `/${command.name} ${commandInput.replace(command.name, '').trim()}`
FullInput(name, input) == <<"/">> \o name \o <<" ">> \o Trim(ReplaceFirst(input, name))

\* parseCommandInput(input): the failure marker for an input without the command
\* marker; otherwise the parser, which the editor does not control, answers either way
ParseResults(input) ==
    IF input = <<>> \/ input[1] # "/" THEN {"null"} ELSE {"null", "parsed"}

----------------------------------------------------------------------------
(* The line buffer *)

\* getContent()
GetContent(ls) == Join(ls)

\* currentLine.slice(0, cursorColumn)
BeforeCursor(currentLine, cc) == SliceTo(currentLine, cc)

\* currentLine.slice(cursorColumn)
AfterCursor(currentLine, cc) == SliceFrom(currentLine, cc)

\* a slip: the index one past the last inserted line
LastLineIndexOffByOne(cl, insertLines) == cl + Len(insertLines)

\* cursorLine + insertLines.length - 1
LastLineIndex(cl, insertLines) == cl + Len(insertLines) - 1

\* a slip: every middle line spliced at cursorLine + 1, which reverses their order
RECURSIVE MiddleLinesReversed(_, _, _, _)
MiddleLinesReversed(arr, cl, insertLines, i) ==
    IF i < Len(insertLines) - 1
    THEN MiddleLinesReversed(Splice(arr, cl + 1, insertLines[i + 1]), cl, insertLines, i + 1)
    ELSE arr

\* for (let i = 1; i < insertLines.length - 1; i++) lines.splice(cursorLine + i, 0, insertLines[i])
RECURSIVE MiddleLines(_, _, _, _)
MiddleLines(arr, cl, insertLines, i) ==
    IF i < Len(insertLines) - 1
    THEN MiddleLines(Splice(arr, cl + i, insertLines[i + 1]), cl, insertLines, i + 1)
    ELSE arr

\* a slip: the length of the whole new line, the suffix counted
ColumnAfterWithSuffix(lastInsertLine, afterCursor) == Len(lastInsertLine \o afterCursor)

\* cursorColumn = lastInsertLine.length: the suffix appended to the line is not counted
ColumnAfter(lastInsertLine, afterCursor) == Len(lastInsertLine)

\* insertText(text) on lines ls with the cursor at (cl, cc): the new lines and cursor
InsertTextResult(ls, cl, cc, text) ==
    LET currentLine == OrEmpty(At(ls, cl))
        insertLines == Split(text)
    IN
    IF Len(insertLines) = 1
    THEN [lines        |-> SetAt(ls, cl, SliceTo(currentLine, cc) \o text
                                         \o SliceFrom(currentLine, cc)),
          cursorLine   |-> cl,
          cursorColumn |-> cc + Len(text)]
    ELSE LET beforeCursor   == BeforeCursor(currentLine, cc)
             afterCursor    == AfterCursor(currentLine, cc)
             first          == SetAt(ls, cl, beforeCursor \o insertLines[1])
             middle         == MiddleLines(first, cl, insertLines, 1)
             lastLineIndex  == LastLineIndex(cl, insertLines)
             lastInsertLine == insertLines[Len(insertLines)]
         IN
         [lines        |-> Splice(middle, lastLineIndex, lastInsertLine \o afterCursor),
          cursorLine   |-> lastLineIndex,
          cursorColumn |-> ColumnAfter(lastInsertLine, afterCursor)]

\* the document stays within the bounds of the model
Fits(r, maxLines, maxLen) ==
    /\ Len(r.lines) <= maxLines
    /\ Len(GetContent(r.lines)) <= maxLen
    /\ r.cursorColumn <= maxLen

\* lines[i].length throws for some i < cursorLine: that element is missing
ContextThrows(ls, cl) == \E i \in 0..(cl - 1) : At(ls, i) = Undefined

\* a slip: the newline that ends each preceding line is not counted
RECURSIVE OffsetLoopNoNewline(_, _, _, _)
OffsetLoopNoNewline(ls, cl, i, offset) ==
    IF i < cl THEN OffsetLoopNoNewline(ls, cl, i + 1, offset + Len(ls[i + 1])) ELSE offset

\* the offset loop of createCommandContext
RECURSIVE OffsetLoop(_, _, _, _)
OffsetLoop(ls, cl, i, offset) ==
    IF i < cl THEN OffsetLoop(ls, cl, i + 1, offset + Len(ls[i + 1]) + 1) ELSE offset

\* createCommandContext(), when it does not throw
CreateCommandContext(ls, cl, cc) ==
    [cursor  |-> [line |-> cl, column |-> cc, offset |-> OffsetLoop(ls, cl, 0, 0) + cc],
     content |-> GetContent(ls)]

Done(op, arg, result) == [op |-> op, arg |-> arg, result |-> result]

\* An executeSelectedCommand() call suspended at its await. contextCurrent tells
\* whether the lines and the cursor are still those its context was built from:
\* no operation has changed them since.
SelectedCall == [kind |-> "selected", contextCurrent |-> TRUE]

\* An executor call made by executeCommand(input), which keeps nothing of it.
DirectCall == [kind |-> "direct"]

\* the suspended calls once the lines and the cursor become ls, cl, cc
Suspended(calls, ls, cl, cc) ==
    IF calls = <<>> THEN <<>> ELSE
    [i \in 1..Len(calls) |->
        IF calls[i].kind = "selected"
        THEN [calls[i] EXCEPT !.contextCurrent =
                 @ /\ ls = lines /\ cl = cursorLine /\ cc = cursorColumn]
        ELSE calls[i]]

Remove(seq, i) == SubSeq(seq, 1, i - 1) \o SubSeq(seq, i + 1, Len(seq))

----------------------------------------------------------------------------
(* The operations of Editor *)

\* new Editor(options) with the content (options.content || '' or the file's text)
\* and the path
Constructed(content, fp) ==
    /\ lines = Split(content)
    /\ cursorLine = 0
    /\ cursorColumn = 0
    /\ isDirty = FALSE
    /\ filePath = fp
    /\ isCommandPaletteOpen = FALSE
    /\ commandInput = <<>>
    /\ filteredCommands = <<>>
    /\ selectedCommandIndex = 0
    /\ pending = <<>>
    /\ sigintArmed = 0
    /\ exited = FALSE
    /\ last = Done("constructor", content, "ok")

Init == \E content \in Texts, fp \in {NoPath, ThePath} : Constructed(content, fp)

\* a slip: setContent leaves the dirty flag as it was
SetContentKeepsFlag(content) ==
    /\ lines' = Split(content)
    /\ pending' = Suspended(pending, lines', cursorLine, cursorColumn)
    /\ last' = Done("setContent", content, "void")
    /\ UNCHANGED <<cursorLine, cursorColumn, isDirty, filePath, palette>>
    /\ UNCHANGED process

SetContent(content) ==
    /\ lines' = Split(content)
    /\ isDirty' = TRUE
    /\ pending' = Suspended(pending, lines', cursorLine, cursorColumn)
    /\ last' = Done("setContent", content, "void")
    /\ UNCHANGED <<cursorLine, cursorColumn, filePath, palette>>
    /\ UNCHANGED process

\* a slip: the dirty flag is set only when the insert changes the document
InsertDirtyIfChanged(text, maxLines, maxLen) ==
    LET r == InsertTextResult(lines, cursorLine, cursorColumn, text) IN
    /\ Fits(r, maxLines, maxLen)
    /\ lines' = r.lines
    /\ cursorLine' = r.cursorLine
    /\ cursorColumn' = r.cursorColumn
    /\ isDirty' = (isDirty \/ r.lines # lines)

\* insertText(text), the result within the given bounds
Insert(text, maxLines, maxLen) ==
    LET r == InsertTextResult(lines, cursorLine, cursorColumn, text) IN
    /\ Fits(r, maxLines, maxLen)
    /\ lines' = r.lines
    /\ cursorLine' = r.cursorLine
    /\ cursorColumn' = r.cursorColumn
    /\ isDirty' = TRUE

InsertText(text) ==
    /\ Insert(text, MaxLines, MaxContentLen)
    /\ pending' = Suspended(pending, lines', cursorLine', cursorColumn')
    /\ last' = Done("insertText", text, "void")
    /\ UNCHANGED <<filePath, palette>>
    /\ UNCHANGED process

\* a slip: the dirty flag is cleared before the path is looked at
SaveNoPathClearsDirty ==
    /\ filePath = NoPath
    /\ isDirty' = FALSE
    /\ last' = Done("save", Undefined, "false")
    /\ UNCHANGED <<lines, cursorLine, cursorColumn, filePath, palette, pending>>
    /\ UNCHANGED process

\* save() with no path bound: false is returned, nothing is written (arg)
SaveNoPath ==
    /\ filePath = NoPath
    /\ last' = Done("save", Undefined, "false")
    /\ UNCHANGED <<document, filePath, palette, pending>>
    /\ UNCHANGED process

\* save() when writeFileSync succeeds: arg records the text written
SaveWritten ==
    /\ filePath # NoPath
    /\ isDirty' = FALSE
    /\ last' = Done("save", GetContent(lines), "true")
    /\ UNCHANGED <<lines, cursorLine, cursorColumn, filePath, palette, pending, process>>

\* a slip: the dirty flag is cleared before the write is attempted
SaveFailedClearsDirty ==
    /\ filePath # NoPath
    /\ isDirty' = FALSE
    /\ last' = Done("save", Undefined, "false")
    /\ UNCHANGED <<lines, cursorLine, cursorColumn, filePath, palette, pending>>
    /\ UNCHANGED process

\* save() when writeFileSync throws: the catch returns false
SaveFailed ==
    /\ filePath # NoPath
    /\ last' = Done("save", Undefined, "false")
    /\ UNCHANGED <<document, filePath, palette, pending>>
    /\ UNCHANGED process

OpenCommandPalette ==
    /\ isCommandPaletteOpen' = TRUE
    /\ commandInput' = <<>>
    /\ filteredCommands' = AllCommands
    /\ selectedCommandIndex' = 0
    /\ last' = Done("openCommandPalette", <<>>, "void")
    /\ UNCHANGED <<document, filePath, pending>>
    /\ UNCHANGED process

\* the assignments of closeCommandPalette()
PaletteClosed ==
    /\ isCommandPaletteOpen' = FALSE
    /\ commandInput' = <<>>
    /\ filteredCommands' = <<>>
    /\ selectedCommandIndex' = 0

CloseCommandPalette ==
    /\ PaletteClosed
    /\ last' = Done("closeCommandPalette", <<>>, "void")
    /\ UNCHANGED <<document, filePath, pending>>
    /\ UNCHANGED process

FilterCommands(input) ==
    /\ commandInput' = input
    /\ filteredCommands' = IF input # <<>> THEN SearchCommands(input) ELSE AllCommands
    /\ selectedCommandIndex' = 0
    /\ last' = Done("filterCommands", input, "void")
    /\ UNCHANGED <<document, filePath, isCommandPaletteOpen, pending>>
    /\ UNCHANGED process

\* filteredCommands[selectedCommandIndex]
SelectedCommand == At(filteredCommands, selectedCommandIndex)

\* executeSelectedCommand(): no command is selected, the call returns at once
SelectedNone ==
    /\ SelectedCommand = Undefined
    /\ last' = Done("executeSelectedCommand", <<>>, "noCommand")
    /\ UNCHANGED <<document, filePath, palette, pending>>
    /\ UNCHANGED process

\* executeSelectedCommand(): the parser returns null, the palette is closed
SelectedParseNull ==
    /\ SelectedCommand # Undefined
    /\ "null" \in ParseResults(FullInput(SelectedCommand, commandInput))
    /\ PaletteClosed
    /\ last' = Done("executeSelectedCommand", <<>>, "parseNull")
    /\ UNCHANGED <<document, filePath, pending>>
    /\ UNCHANGED process

\* executeSelectedCommand(): createCommandContext throws, the promise rejects
SelectedContextThrows ==
    /\ SelectedCommand # Undefined
    /\ "parsed" \in ParseResults(FullInput(SelectedCommand, commandInput))
    /\ ContextThrows(lines, cursorLine)
    /\ last' = Done("executeSelectedCommand", <<>>, "threw")
    /\ UNCHANGED <<document, filePath, palette, pending>>
    /\ UNCHANGED process

\* executeSelectedCommand(): the executor is invoked with the context (recorded as
\* arg) and the call awaits its promise
SelectedInvoke ==
    /\ SelectedCommand # Undefined
    /\ "parsed" \in ParseResults(FullInput(SelectedCommand, commandInput))
    /\ ~ContextThrows(lines, cursorLine)
    /\ Len(pending) < MaxPending
    /\ pending' = Append(pending, SelectedCall)
    /\ last' = Done("executeSelectedCommand",
                    CreateCommandContext(lines, cursorLine, cursorColumn), "awaiting")
    /\ UNCHANGED <<document, filePath, palette>>
    /\ UNCHANGED process

\* executeSelectedCommand() resumes with the executor's result: insertText, closeCommandPalette
SelectedResolved(i, result) ==
    /\ i \in 1..Len(pending)
    /\ pending[i].kind = "selected"
    /\ Insert(result, MaxLines, MaxContentLen)
    /\ PaletteClosed
    /\ pending' = Suspended(Remove(pending, i), lines', cursorLine', cursorColumn')
    /\ last' = Done("executeSelectedCommand", result,
                    IF pending[i].contextCurrent THEN "inserted" ELSE "insertedElsewhere")
    /\ UNCHANGED filePath
    /\ UNCHANGED process

\* executeSelectedCommand() resumes with the executor's rejection, which it does not catch
SelectedRejected(i) ==
    /\ i \in 1..Len(pending)
    /\ pending[i].kind = "selected"
    /\ pending' = Remove(pending, i)
    /\ last' = Done("executeSelectedCommand", <<>>, "rejected")
    /\ UNCHANGED <<document, filePath, palette>>
    /\ UNCHANGED process

\* a slip: the null of the parser is not checked and the executor is invoked
DirectParseNullInvokes(input) ==
    /\ "null" \in ParseResults(input)
    /\ Len(pending) < MaxPending
    /\ pending' = Append(pending, DirectCall)
    /\ last' = Done("executeCommand", input, "null")
    /\ UNCHANGED <<document, filePath, palette>>
    /\ UNCHANGED process

\* executeCommand(input): the parser returns null
DirectParseNull(input) ==
    /\ "null" \in ParseResults(input)
    /\ last' = Done("executeCommand", input, "null")
    /\ UNCHANGED <<document, filePath, palette, pending>>
    /\ UNCHANGED process

\* executeCommand(input): createCommandContext throws, the promise rejects
DirectContextThrows(input) ==
    /\ "parsed" \in ParseResults(input)
    /\ ContextThrows(lines, cursorLine)
    /\ last' = Done("executeCommand", input, "threw")
    /\ UNCHANGED <<document, filePath, palette, pending>>
    /\ UNCHANGED process

\* executeCommand(input): the executor is invoked with the context (recorded as arg)
\* and its promise returned
DirectInvoke(input) ==
    /\ "parsed" \in ParseResults(input)
    /\ ~ContextThrows(lines, cursorLine)
    /\ Len(pending) < MaxPending
    /\ pending' = Append(pending, DirectCall)
    /\ last' = Done("executeCommand",
                    CreateCommandContext(lines, cursorLine, cursorColumn), "awaiting")
    /\ UNCHANGED <<document, filePath, palette>>
    /\ UNCHANGED process

\* a slip: executeCommand(input) inserts the payload as executeSelectedCommand does
DirectSettledInserts(i, result) ==
    /\ i \in 1..Len(pending)
    /\ pending[i].kind = "direct"
    /\ IF result = "payload"
       THEN Insert(<<"a">>, MaxLines, MaxContentLen)
       ELSE UNCHANGED document
    /\ pending' = Suspended(Remove(pending, i), lines', cursorLine', cursorColumn')
    /\ last' = Done("executeCommand", <<>>, result)
    /\ UNCHANGED <<filePath, palette>>
    /\ UNCHANGED process

\* the promise returned by executeCommand(input) settles: a payload or a rejection
DirectSettled(i, result) ==
    /\ i \in 1..Len(pending)
    /\ pending[i].kind = "direct"
    /\ pending' = Remove(pending, i)
    /\ last' = Done("executeCommand", <<>>, result)
    /\ UNCHANGED <<document, filePath, palette>>
    /\ UNCHANGED process

Next ==
    \/ \E content \in Texts : SetContent(content)
    \/ \E text \in Texts : InsertText(text)
    \/ SaveNoPath
    \/ SaveWritten
    \/ SaveFailed
    \/ OpenCommandPalette
    \/ CloseCommandPalette
    \/ \E input \in Queries : FilterCommands(input)
    \/ SelectedNone
    \/ SelectedParseNull
    \/ SelectedContextThrows
    \/ SelectedInvoke
    \/ \E i \in 1..MaxPending, result \in Texts : SelectedResolved(i, result)
    \/ \E i \in 1..MaxPending : SelectedRejected(i)
    \/ \E input \in CommandInputs : DirectParseNull(input)
    \/ \E input \in CommandInputs : DirectContextThrows(input)
    \/ \E input \in CommandInputs : DirectInvoke(input)
    \/ \E i \in 1..MaxPending, result \in {"payload", "rejected"} : DirectSettled(i, result)

Spec == Init /\ [][Next]_vars

----------------------------------------------------------------------------
(* The line buffer alone: construction, setContent and insertText over a     *)
(* larger set of texts                                                       *)

InitBuffer == \E content \in BufferTexts : Constructed(content, NoPath)

BufferSetContent(content) ==
    /\ lines' = Split(content)
    /\ isDirty' = TRUE
    /\ last' = Done("setContent", content, "void")
    /\ UNCHANGED <<cursorLine, cursorColumn, filePath, palette, pending>>
    /\ UNCHANGED process

BufferInsertText(text) ==
    /\ Insert(text, MaxBufferLines, MaxBufferLen)
    /\ last' = Done("insertText", text, "void")
    /\ UNCHANGED <<filePath, palette, pending>>
    /\ UNCHANGED process

NextBuffer ==
    \/ \E content \in BufferTexts : BufferSetContent(content)
    \/ \E text \in BufferTexts : BufferInsertText(text)

SpecBuffer == InitBuffer /\ [][NextBuffer]_vars

----------------------------------------------------------------------------
(* The command line program: the editor it constructs from its file argument *)
(* and its SIGINT handlers                                                   *)

\* new Editor({ filePath }): '' without a path or without the file, else the file's text
InitCli ==
    \/ Constructed(<<>>, NoPath)
    \/ \E content \in Texts : Constructed(content, ThePath)

\* a slip: the handler armed by process.once is missing, only a clean editor exits
SigintExitsWhenClean(dirty, armed) == ~dirty

\* Whether an interrupt ends the process. The permanent handler runs first and
\* exits when the editor is not dirty; the handlers armed by process.once before
\* this interrupt run after it and exit.
SigintExits(dirty, armed) == ~dirty \/ armed > 0

\* what the handlers of one interrupt print
SigintPrints(dirty, armed) ==
    IF ~dirty THEN <<"Exiting.">>
    ELSE IF armed > 0 THEN <<"Unsaved changes.", "Exiting without saving.">>
    ELSE <<"Unsaved changes.">>

\* SIGINT is delivered. A dirty editor makes the permanent handler arm one more
\* handler; an armed handler is removed as it runs.
Sigint ==
    /\ ~exited
    /\ exited' = SigintExits(isDirty, sigintArmed)
    /\ sigintArmed' = IF isDirty /\ sigintArmed = 0 THEN 1 ELSE sigintArmed
    /\ last' = Done("SIGINT", SigintPrints(isDirty, sigintArmed),
                    IF SigintExits(isDirty, sigintArmed) THEN "exit" ELSE "running")
    /\ UNCHANGED <<document, filePath, palette, pending>>

\* the operations of the editor while the process runs
CliSetContent(content) == ~exited /\ SetContent(content)
CliInsertText(text) == ~exited /\ InsertText(text)
CliSaveNoPath == ~exited /\ SaveNoPath
CliSaveWritten == ~exited /\ SaveWritten
CliSaveFailed == ~exited /\ SaveFailed

NextCli ==
    \/ Sigint
    \/ \E content \in Texts : CliSetContent(content)
    \/ \E text \in Texts : CliInsertText(text)
    \/ CliSaveNoPath
    \/ CliSaveWritten
    \/ CliSaveFailed

SpecCli == InitCli /\ [][NextCli]_vars

----------------------------------------------------------------------------
(* Vocabulary of the properties *)

\* 0 <= line < lines.length and 0 <= column <= lines[line].length
CursorValid(ls, cl, cc) ==
    /\ 0 <= cl /\ cl < Len(ls)
    /\ 0 <= cc /\ cc <= Len(OrEmpty(ls[cl + 1]))

PaletteIsClosed ==
    /\ isCommandPaletteOpen = FALSE
    /\ commandInput = <<>>
    /\ filteredCommands = <<>>

\* the number of newlines of a text
NLCount(t) == Cardinality({i \in 1..Len(t) : t[i] = NL})

\* the part of a text after its last newline
LastSegment(t) ==
    LET nls == {i \in 1..Len(t) : t[i] = NL}
        from == IF nls = {} THEN 0 ELSE CHOOSE i \in nls : \A j \in nls : j <= i
    IN SubSeq(t, from + 1, Len(t))

\* the index of position (cl, cc) within the joined content
LinearOffset(ls, cl, cc) ==
    (IF cl = 0 THEN 0 ELSE Len(Join(SubSeq(ls, 1, cl))) + 1) + cc

\* content with t inserted at offset
InsertedAt(content, offset, t) ==
    SubSeq(content, 1, offset) \o t \o SubSeq(content, offset + 1, Len(content))

\* the lines a multi-line insert of t at the valid position (cl, cc) is to leave
SplicedLines(ls, cl, cc, t) ==
    LET segments == Split(t)
        k        == Len(segments)
        old      == OrEmpty(ls[cl + 1])
    IN SubSeq(ls, 1, cl)
       \o << SliceTo(old, cc) \o segments[1] >>
       \o SubSeq(segments, 2, k - 1)
       \o << segments[k] \o SliceFrom(old, cc) >>
       \o SubSeq(ls, cl + 2, Len(ls))

\* the step is a completed insertText(t)
InsertTextStep(t) == last'.op = "insertText" /\ last'.arg = t

----------------------------------------------------------------------------
(* The claims *)

\* C1: after any sequence of public operations the cursor satisfies
\* 0 <= line < lines.length and 0 <= column <= lines[line].length.
C1_CursorInvariant == CursorValid(lines, cursorLine, cursorColumn)

\* C2: once executeSelectedCommand, called with a command selected, completes, the
\* palette is closed, whether the parser rejected the input, the executor returned a
\* result or the executor's promise rejected.
C2_PaletteClosedAfterExecution ==
    (/\ last.op = "executeSelectedCommand"
     /\ last.result \in {"parseNull", "inserted", "insertedElsewhere", "rejected"})
    => PaletteIsClosed

\* C3: filtering the open palette with a query that matches no command leaves the
\* filtered list empty and the selected index 0; executeSelectedCommand in that state
\* changes neither lines, cursor nor dirty flag, invokes no executor, and the palette
\* ends up closed.
C3_NoMatchExecuteClosesPalette ==
    [][ /\ (/\ isCommandPaletteOpen
            /\ last'.op = "filterCommands"
            /\ last'.arg # <<>>
            /\ SearchCommands(last'.arg) = <<>>)
           => (filteredCommands' = <<>> /\ selectedCommandIndex' = 0)
        /\ (/\ isCommandPaletteOpen
            /\ commandInput # <<>>
            /\ filteredCommands = <<>>
            /\ last'.op = "executeSelectedCommand"
            /\ last'.result = "noCommand")
           => (/\ UNCHANGED <<document, pending>>
               /\ isCommandPaletteOpen' = FALSE
               /\ commandInput' = <<>>
               /\ filteredCommands' = <<>>) ]_vars

\* C4: at most one invocation of the external executor is pending at any time.
C4_SingleInFlight == Len(pending) <= 1

\* C5: while an executeSelectedCommand call awaits the executor, no operation changes
\* the lines or the cursor, so the result is inserted at the position and into the
\* content its context was built from.
C5_NoEditWhileExecuting ==
    /\ \A i \in 1..Len(pending) :
          pending[i].kind = "selected" => pending[i].contextCurrent
    /\ last.result # "insertedElsewhere"

\* C6: a multi-line insertText(t) at a valid cursor (l, c) leaves the lines before l,
\* then the old prefix followed by the first segment, the middle segments in order,
\* the last segment followed by the old suffix, then the lines after l; the content
\* is the old content with t inserted at the cursor's linear offset.
C6_MultiLineInsertIsSplice ==
    [][ \A t \in BufferTexts :
          (/\ InsertTextStep(t)
           /\ NLCount(t) >= 1
           /\ CursorValid(lines, cursorLine, cursorColumn))
          => /\ lines' = SplicedLines(lines, cursorLine, cursorColumn, t)
             /\ GetContent(lines') =
                  InsertedAt(GetContent(lines),
                             LinearOffset(lines, cursorLine, cursorColumn), t) ]_vars

\* C6 witness: an insert with two different middle segments has happened in the middle
\* of a line (the old suffix, not empty, follows the cursor).
C6_Witness ==
    /\ last.op = "insertText"
    /\ last.arg = <<NL, "a", NL, NL>>
    /\ CursorValid(lines, cursorLine, cursorColumn)
    /\ cursorColumn < Len(lines[cursorLine + 1])

ScenarioBefore ==
    /\ lines = << <<"a">>, <<"b">> >>
    /\ cursorLine = 0
    /\ cursorColumn = 1

\* C7 as stated: from lines ["a", "b"] and cursor (0,1), insertText("X\nY") gives
\* lines ["aX", "Yb"] and cursor (1,1).
C7_ScenarioAsStated ==
    [][ (ScenarioBefore /\ InsertTextStep(<<"X", NL, "Y">>))
        => /\ lines' = << <<"a", "X">>, <<"Y", "b">> >>
           /\ cursorLine' = 1
           /\ cursorColumn' = 1 ]_vars

\* C7 amended: from lines ["a", "b"] and cursor (0,1), insertText("X\nY") gives
\* lines ["aX", "Y", "b"] and cursor (1,1).
C7_ScenarioAmended ==
    [][ (ScenarioBefore /\ InsertTextStep(<<"X", NL, "Y">>))
        => /\ lines' = << <<"a", "X">>, <<"Y">>, <<"b">> >>
           /\ cursorLine' = 1
           /\ cursorColumn' = 1 ]_vars

\* C7 witness: the insert of the scenario has happened.
C7_Witness ==
    /\ last.op = "insertText"
    /\ last.arg = <<"X", NL, "Y">>
    /\ lines = << <<"a", "X">>, <<"Y">>, <<"b">> >>
    /\ cursorLine = 1
    /\ cursorColumn = 1

\* C8: insertText of a text with k newlines increases the line count by exactly k.
C8_LineCountGrowsByNewlines ==
    [][ \A t \in BufferTexts :
          InsertTextStep(t) => Len(lines') = Len(lines) + NLCount(t) ]_vars

\* C9: insertText of a text without newline lengthens the cursor's line by the
\* length of the text, advances the column by as much, keeps the cursor line index
\* and modifies no other line.
C9_SingleLineInsert ==
    [][ \A t \in BufferTexts :
          (InsertTextStep(t) /\ NLCount(t) = 0)
          => /\ cursorLine < Len(lines)
             /\ Len(lines') = Len(lines)
             /\ \A i \in 1..Len(lines) : i # cursorLine + 1 => lines'[i] = lines[i]
             /\ Len(lines'[cursorLine + 1]) = Len(OrEmpty(lines[cursorLine + 1])) + Len(t)
             /\ cursorColumn' = cursorColumn + Len(t)
             /\ cursorLine' = cursorLine ]_vars

\* C10: after insertText of a text with k >= 1 newlines from cursor (l, c) the cursor
\* is at line l + k, the line that begins with the last segment, and its column is
\* the length of the last segment, the suffix after it not counted.
C10_CursorAfterMultiLineInsert ==
    [][ \A t \in BufferTexts :
          (InsertTextStep(t) /\ NLCount(t) >= 1)
          => /\ cursorLine' = cursorLine + NLCount(t)
             /\ cursorLine' < Len(lines')
             /\ cursorColumn' = Len(LastSegment(t))
             /\ SliceTo(lines'[cursorLine' + 1], cursorColumn') = LastSegment(t) ]_vars

\* C10 witness: a multi-line insert has happened whose last segment is not empty and
\* is followed by a suffix that is not empty.
C10_Witness ==
    /\ last.op = "insertText"
    /\ NLCount(last.arg) >= 1
    /\ LastSegment(last.arg) # <<>>
    /\ cursorLine < Len(lines)
    /\ cursorColumn < Len(lines[cursorLine + 1])

\* C11: from any state, setContent(x) followed by getContent() returns exactly x,
\* for the empty string and for strings with leading or trailing newlines too.
C11_SetContentRoundTrip ==
    last.op = "setContent" => GetContent(lines) = last.arg

\* C11 witness: setContent of a text with a leading and two trailing newlines has
\* happened after the cursor had moved.
C11_Witness ==
    /\ last.op = "setContent"
    /\ last.arg = <<NL, "a", NL, NL>>
    /\ cursorLine > 0
    /\ GetContent(lines) = <<NL, "a", NL, NL>>

\* C15: the document has at least one line in every reachable state, and an empty
\* document is exactly one empty line.
C15_AtLeastOneLine ==
    /\ Len(lines) >= 1
    /\ GetContent(lines) = <<>> => lines = << <<>> >>

\* C15 witness: the document has been emptied by setContent('') after inserts.
C15_Witness ==
    /\ last.op = "setContent"
    /\ last.arg = <<>>
    /\ cursorLine > 0
    /\ lines = << <<>> >>

\* C12: with no file path bound, save() returns false, writes nothing and leaves the
\* dirty flag, the lines and the cursor unchanged.
C12_SaveWithoutPath ==
    [][ (filePath = NoPath /\ last'.op = "save")
        => /\ last'.result = "false"
           /\ last'.arg = Undefined
           /\ UNCHANGED document ]_vars

\* C12 witness: save() has returned false on an edited document with no path bound.
C12_Witness ==
    /\ filePath = NoPath
    /\ last.op = "save"
    /\ last.result = "false"
    /\ isDirty

\* C13: after a successful save() the dirty flag is false and the text written is
\* getContent(); every insertText call, the empty text included, sets the flag.
C13_SaveClearsInsertSets ==
    [][ /\ (last'.op = "save" /\ last'.result = "true")
           => (/\ ~isDirty'
               /\ last'.arg = GetContent(lines')
               /\ lines' = lines)
        /\ last'.op = "insertText" => isDirty' ]_vars

\* C13 witness: an edited document has been saved successfully.
C13_Witness ==
    /\ last.op = "save"
    /\ last.result = "true"
    /\ ~isDirty
    /\ cursorColumn > 0
    /\ last.arg = GetContent(lines)

\* C14: with a path bound and the write failing, save() returns false (no
\* exception) and leaves the dirty flag, the lines and the cursor unchanged.
C14_SaveWriteFails ==
    [][ /\ last'.op = "save" => last'.result \in {"true", "false"}
        /\ (filePath # NoPath /\ last'.op = "save" /\ last'.result = "false")
           => UNCHANGED document ]_vars

\* C14 witness: a failed write has left an edited document dirty.
C14_Witness ==
    /\ filePath # NoPath
    /\ last.op = "save"
    /\ last.result = "false"
    /\ isDirty

\* C17: the dirty flag is false only when the content is that of construction or of
\* the last successful save: a step that ends with the flag false is a successful
\* save that wrote the current content, or started with the flag false and left the
\* lines as they were; every step that changes the lines sets the flag.
C17_DirtyFlagSound ==
    [][ /\ ~isDirty'
           => \/ (/\ last'.op = "save"
                  /\ last'.result = "true"
                  /\ last'.arg = GetContent(lines'))
              \/ (~isDirty /\ lines' = lines)
        /\ lines' # lines => isDirty' ]_vars

\* C17 witness: an executeSelectedCommand insertion has set the flag of an editor
\* with a path bound.
C17_Witness ==
    /\ filePath # NoPath
    /\ last.op = "executeSelectedCommand"
    /\ last.result = "inserted"
    /\ lines # << <<>> >>
    /\ isDirty

\* C16: an interrupt of a clean editor exits at once; the first interrupt of a dirty
\* editor does not exit, prints the warning and arms a second handler; once that
\* handler is armed it stays armed and the next interrupt exits, whatever was saved
\* or edited in between; no interrupt saves or changes the document.
C16_SigintHandling ==
    [][ /\ last'.op = "SIGINT"
           => /\ ~isDirty => (exited' /\ last'.arg = <<"Exiting.">>)
              /\ (isDirty /\ sigintArmed = 0)
                 => (/\ ~exited'
                     /\ sigintArmed' = 1
                     /\ last'.arg = <<"Unsaved changes.">>)
              /\ sigintArmed > 0 => exited'
              /\ UNCHANGED <<document, filePath>>
        /\ last'.op # "SIGINT" => UNCHANGED process ]_vars

\* C16 witness: the second interrupt has ended the process, the editor still dirty
\* and nothing saved by the handlers.
C16_Witness ==
    /\ exited
    /\ sigintArmed > 0
    /\ isDirty
    /\ last.op = "SIGINT"
    /\ last.arg = <<"Unsaved changes.", "Exiting without saving.">>

\* the sum over the lines before line cl of their length plus one
RECURSIVE LengthsBefore(_, _)
LengthsBefore(ls, cl) ==
    IF cl = 0 THEN 0 ELSE LengthsBefore(ls, cl - 1) + Len(ls[cl]) + 1

\* the executor has just been invoked: last.arg is the context handed to it
ExecutorInvoked ==
    /\ last.op \in {"executeSelectedCommand", "executeCommand"}
    /\ last.result = "awaiting"

\* C18: the offset of the command context is the sum over the lines before the cursor
\* line of (length + 1) plus the column; for a cursor within the document it is the
\* index of the cursor position in getContent() (the content up to it is the lines
\* before the cursor line, each ended by a newline, and the cursor line up to the
\* column); the content of the context is getContent().
C18_ContextOffset ==
    ExecutorInvoked =>
        LET context == last.arg IN
        /\ context.cursor.line = cursorLine
        /\ context.cursor.column = cursorColumn
        /\ context.cursor.offset = LengthsBefore(lines, cursorLine) + cursorColumn
        /\ context.content = GetContent(lines)
        /\ CursorValid(lines, cursorLine, cursorColumn)
           => /\ context.cursor.offset <= Len(context.content)
              /\ SubSeq(context.content, 1, context.cursor.offset)
                   = Join(SubSeq(lines, 1, cursorLine)
                          \o << SliceTo(lines[cursorLine + 1], cursorColumn) >>)

\* C18 witness: the executor has been invoked with the cursor within the document,
\* past the first line and past the first column.
C18_Witness ==
    /\ ExecutorInvoked
    /\ CursorValid(lines, cursorLine, cursorColumn)
    /\ cursorLine > 0
    /\ cursorColumn > 0

\* C19: when the parser returns its failure marker, executeCommand(input) returns
\* null and executeSelectedCommand inserts nothing: the executor is not invoked and
\* lines, cursor and dirty flag are unchanged; a malformed input always ends so.
C19_ParseFailureIsNoOp ==
    [][ /\ (\/ (last'.op = "executeCommand" /\ last'.result = "null")
            \/ (last'.op = "executeSelectedCommand" /\ last'.result = "parseNull"))
           => UNCHANGED <<document, pending>>
        /\ (/\ last'.op = "executeCommand"
            /\ last'.result \in {"null", "threw"}
            /\ ParseResults(last'.arg) = {"null"})
           => last'.result = "null" ]_vars

\* C19 witness: executeCommand("h1"), an input without the command marker, has
\* returned null on an edited document.
C19_Witness ==
    /\ last.op = "executeCommand"
    /\ last.result = "null"
    /\ last.arg = <<"h", "1">>
    /\ isDirty

\* C20: openCommandPalette, closeCommandPalette, filterCommands and
\* executeCommand(input), its settling included, change neither lines, cursor nor
\* dirty flag.
C20_CommandFrame ==
    [][ last'.op \in {"openCommandPalette", "closeCommandPalette",
                      "filterCommands", "executeCommand"}
        => UNCHANGED document ]_vars

\* C20 witness: executeCommand(input) has returned the executor's payload and the
\* document is still as constructed.
C20_Witness ==
    /\ last.op = "executeCommand"
    /\ last.result = "payload"
    /\ ~isDirty
    /\ cursorLine = 0
    /\ cursorColumn = 0

====
